---- MODULE Spec2Model ----
(***************************************************************************)
(* page2md: a URL is loaded in a headless browser, the content region of   *)
(* the rendered page is extracted, converted to Markdown, normalised and   *)
(* written to a file.  The module models index.js (convertHtmlToMarkdown   *)
(* and its helpers) and cli.js (the commander action).                     *)
(*                                                                         *)
(* Specifications:                                                         *)
(*   Spec           one run of the program, entered through the CLI or     *)
(*                  through a direct call of convertHtmlToMarkdown         *)
(*   ScrollSpec     a call up to the HTML snapshot, with the scheduling of *)
(*                  the timer and of the awaited steps as weak fairness    *)
(*   CleanSpec      cleanMarkdown applied to bounded strings               *)
(*   TableSpec      the "tables" rule applied to bounded tables            *)
(*   AdmonitionSpec the "admonition" rule applied to bounded class lists   *)
(***************************************************************************)
EXTENDS Integers, Sequences, FiniteSets, TLC

VARIABLES
    entry,            \* "cli": node cli.js <url> -o <file>;  "api": convertHtmlToMarkdown(...)
    noJs,             \* parameter noJs / option --no-js
    fault,            \* the awaited external call that rejects in this run ("none": all succeed)
    closeFails,       \* whether browser.close() rejects in this run
    pc,               \* position in the running function
    browser,          \* let browser: "undefined" | "open" | "closed" (close() was called on it)
    error,            \* the exception in flight / thrown ("none": no exception)
    result,           \* convertHtmlToMarkdown: "running" | "returned" | "threw"
    fileWritten,      \* fs.writeFileSync(outputPath, ...) has completed
    selIdx,           \* waitForContent: index of the selector being tried
    foundSelector,    \* waitForContent: let foundSelector ("null" or a selector)
    timer,            \* autoScroll: the interval timer, "none" | "active" | "cleared"
    totalHeight,      \* autoScroll: let totalHeight
    scrollHeight,     \* autoScroll: const scrollHeight read by the last tick
    bodyScrollHeight, \* the page's document.body.scrollHeight
    resolved,         \* autoScroll: number of calls of resolve()
    document,         \* dom.window.document
    contentElement,   \* extractContent: let contentElement (a path, Null when null)
    article,          \* const article = extractContent(document)
    exitCode,         \* process.exit(code); -1 while the process runs
    markdown,         \* cleanMarkdown: the argument
    cleaned,          \* cleanMarkdown(markdown)
    twice,            \* cleanMarkdown(cleanMarkdown(markdown))
    table,            \* the table node handed to the "tables" rule
    markdownRows,     \* tables rule: const markdownRows after the splice
    node,             \* the element handed to the "admonition" rule: nodeName, class tokens
    isAdmonition,     \* admonition rule: result of filter(node)
    type              \* admonition rule: const type (the label)

envVars == <<entry, noJs, fault, closeFails>>
orchVars == <<envVars, pc, browser, error, result, fileWritten, exitCode>>
waitVars == <<selIdx, foundSelector>>
scrollVars == <<timer, totalHeight, scrollHeight, bodyScrollHeight, resolved>>
domVars == <<document, contentElement, article>>
cleanVars == <<markdown, cleaned, twice>>
tableVars == <<table, markdownRows>>
admVars == <<node, isAdmonition, type>>
vars == <<orchVars, waitVars, scrollVars, domVars, cleanVars, tableVars, admVars>>

(***************************************************************************)
(* Bounds of the model.                                                    *)
(***************************************************************************)
MaxElements == 3
MaxScrollUnits == 16
MaxGrowUnits == 3
MaxLen == 5
MaxRows == 2
MaxCols == 2
MaxClasses == 3

(***************************************************************************)
(* Program constants.                                                      *)
(***************************************************************************)
distance == 200
innerHeight == 800
selectorsToTry == <<".doc-content", "article", "main", ".content", "h1">>

\* Heights are multiples of half a scroll step.
HeightUnit == distance \div 2
MaxScrollHeight == MaxScrollUnits * HeightUnit

(***************************************************************************)
(* The DOM handed to extractContent: the body's children, each with leaf   *)
(* children.  A path <<i>> names a child of the body, <<i, j>> its j-th    *)
(* child, BodyPath the body itself; Null is JavaScript's null.             *)
(***************************************************************************)
Null == << >>
BodyPath == <<0>>
Tags == {".doc-content", "article", "main", ".content", "p", "nav"}

SeqsUpTo(S, n) == UNION {[1..k -> S] : k \in 0..n}

Leaves == [tag : Tags, kids : {<< >>}]
NodesWithKids(k) == [tag : Tags, kids : [1..k -> Leaves]]

RECURSIVE Sum(_)
Sum(s) == IF s = << >> THEN 0 ELSE Head(s) + Sum(Tail(s))

\* The number of children of each child of the body, for at most MaxElements
\* elements below the body.
Shapes ==
    {s \in SeqsUpTo(0..(MaxElements - 1), MaxElements) : Len(s) + Sum(s) <= MaxElements}

RECURSIVE ChildrenOfShape(_)
ChildrenOfShape(s) ==
    IF s = << >> THEN {<< >>}
    ELSE {<<n>> \o rest : n \in NodesWithKids(Head(s)), rest \in ChildrenOfShape(Tail(s))}

\* A parsed page: with a body and its elements, or without a body.
Documents ==
    {[body |-> TRUE, children |-> c] : c \in UNION {ChildrenOfShape(s) : s \in Shapes}}
        \cup {[body |-> FALSE, children |-> << >>]}
NoDocument == [body |-> FALSE, children |-> << >>]
NoArticle == [content |-> << >>]

Paths(doc) ==
    {<<i>> : i \in 1..Len(doc.children)}
        \cup UNION {{<<i, j>> : j \in 1..Len(doc.children[i].kids)} :
                      i \in 1..Len(doc.children)}

TagAt(doc, p) ==
    IF Len(p) = 1 THEN doc.children[p[1]].tag ELSE doc.children[p[1]].kids[p[2]].tag

\* Document (tree) order of two distinct paths.
Before(p, q) ==
    \/ p[1] < q[1]
    \/ p[1] = q[1] /\ Len(p) < Len(q)
    \/ p[1] = q[1] /\ Len(p) = 2 /\ Len(q) = 2 /\ p[2] < q[2]

\* document.querySelector(sel): the first element in document order, or null.
querySelector(doc, sel) ==
    LET M == {p \in Paths(doc) : TagAt(doc, p) = sel}
    IN  IF M = {} THEN Null
        ELSE CHOOSE p \in M : \A q \in M : q = p \/ Before(p, q)

\* document.body
Body(doc) == IF doc.body THEN BodyPath ELSE Null

elementsToRemove ==
    {".header-anchor", ".sidebar", ".toc", ".footer", ".edit-link", "nav", "script",
     "style", "iframe", ".page-meta", ".ads-container", ".comment-section"}

\* elementsToRemove.forEach(... el.remove()) on a list of sibling nodes and below.
RemoveBoilerplate(nodes) ==
    LET Keep(n) == n.tag \notin elementsToRemove
        kept == SelectSeq(nodes, Keep)
    IN  [i \in 1..Len(kept) |->
            [tag |-> kept[i].tag, kids |-> SelectSeq(kept[i].kids, Keep)]]

\* The children of the element at path p (what cloneNode(true) copies below it).
ChildrenAt(doc, p) ==
    IF p = BodyPath THEN doc.children
    ELSE IF Len(p) = 1 THEN doc.children[p[1]].kids
    ELSE << >>

\* A plausible slip: one selector list, which matches in document order.
SelectRegionDocumentOrder(doc) ==
    LET M == {p \in Paths(doc) :
                 TagAt(doc, p) \in {".doc-content", "article", "main", ".content"}}
    IN  IF M = {} THEN Body(doc)
        ELSE CHOOSE p \in M : \A q \in M : q = p \/ Before(p, q)

\* Lines 142-150: the region, by the chain of querySelector calls.
SelectRegion(doc) ==
    LET c1 == querySelector(doc, ".doc-content")
        c2 == IF c1 = Null THEN querySelector(doc, "article") ELSE c1
        c3 == IF c2 = Null THEN querySelector(doc, "main") ELSE c2
        c4 == IF c3 = Null THEN querySelector(doc, ".content") ELSE c3
    IN  IF c4 = Null THEN Body(doc) ELSE c4

\* extractContent(document): what it leaves in the document, what it returns,
\* and whether it throws (contentElement.cloneNode on null).
extractContent(doc) ==
    LET ce == SelectRegion(doc)
    IN  [contentElement |-> ce,
         threw |-> ce = Null,
         document |-> doc,
         content |-> IF ce = Null THEN << >>
                     ELSE RemoveBoilerplate(ChildrenAt(doc, ce))]

(***************************************************************************)
(* convertHtmlToMarkdown, lines 17-99.  Every awaited call of the browser  *)
(* or the file system either succeeds or rejects; `fault` names the one    *)
(* that rejects in this run, closeFails says whether browser.close() does. *)
(***************************************************************************)
Faults ==
    {"none", "launch", "newPage", "configure", "goto", "autoScroll", "content",
     "turndown", "writeFile"}

pureVars == <<cleanVars, tableVars, admVars>>

\* An exception raised inside the try block: control goes to the catch clause.
Throw(e) ==
    /\ error' = e
    /\ pc' = "catch"

\* Line 26: browser = await puppeteer.launch(...)
Launch ==
    /\ pc = "launch"
    /\ IF fault = "launch"
       THEN Throw("launch") /\ UNCHANGED browser
       ELSE browser' = "open" /\ pc' = "newPage" /\ UNCHANGED error
    /\ UNCHANGED <<envVars, result, fileWritten, exitCode>>
    /\ UNCHANGED <<waitVars, scrollVars, domVars, pureVars>>

\* Line 39: const page = await browser.newPage()
NewPage ==
    /\ pc = "newPage"
    /\ IF fault = "newPage" THEN Throw("newPage") ELSE pc' = "configure" /\ UNCHANGED error
    /\ UNCHANGED <<envVars, browser, result, fileWritten, exitCode>>
    /\ UNCHANGED <<waitVars, scrollVars, domVars, pureVars>>

\* Lines 42-51: setViewport, setUserAgent, setJavaScriptEnabled(false) when noJs
Configure ==
    /\ pc = "configure"
    /\ IF fault = "configure" THEN Throw("configure") ELSE pc' = "goto" /\ UNCHANGED error
    /\ UNCHANGED <<envVars, browser, result, fileWritten, exitCode>>
    /\ UNCHANGED <<waitVars, scrollVars, domVars, pureVars>>

\* Lines 55-64: await page.goto(url, {timeout}); then waitForContent unless noJs
Goto ==
    /\ pc = "goto"
    /\ IF fault = "goto"
       THEN Throw("goto") /\ UNCHANGED selIdx
       ELSE /\ pc' = IF noJs THEN "content" ELSE "waitForSelector"
            /\ selIdx' = 1
            /\ UNCHANGED error
    /\ UNCHANGED <<envVars, browser, result, fileWritten, exitCode>>
    /\ UNCHANGED <<foundSelector, scrollVars, domVars, pureVars>>

(***************************************************************************)
(* waitForContent, lines 103-134.                                          *)
(***************************************************************************)
\* Lines 108-117: one turn of the for loop.  waitForSelector either finds the
\* selector (break) or rejects after its 5 s timeout, which the catch swallows.
TrySelector ==
    /\ pc = "waitForSelector"
    /\ \E found \in BOOLEAN :
          IF found
          THEN /\ foundSelector' = selectorsToTry[selIdx]
               /\ pc' = "autoScroll"
               /\ UNCHANGED selIdx
          ELSE /\ UNCHANGED foundSelector
               /\ IF selIdx < Len(selectorsToTry)
                  THEN selIdx' = selIdx + 1 /\ pc' = "waitForSelector"
                  ELSE UNCHANGED selIdx /\ pc' = "waitForFunction"
    /\ UNCHANGED <<envVars, browser, error, result, fileWritten, exitCode>>
    /\ UNCHANGED <<scrollVars, domVars, pureVars>>

\* Lines 119-130: text-based detection, run only with foundSelector null; it
\* succeeds or rejects after 10 s, and the rejection is swallowed too.
TextDetection ==
    /\ pc = "waitForFunction"
    /\ foundSelector = "null"
    /\ pc' = "autoScroll"
    /\ UNCHANGED <<envVars, browser, error, result, fileWritten, exitCode>>
    /\ UNCHANGED <<waitVars, scrollVars, domVars, pureVars>>

(***************************************************************************)
(* autoScroll, lines 269-287: page.evaluate of a promise resolved by the   *)
(* callback of an interval timer.                                          *)
(***************************************************************************)
Heights == {k * HeightUnit : k \in 0..MaxScrollUnits}

\* Lines 270-275: the evaluate starts, the timer is set.
ScrollStart ==
    /\ pc = "autoScroll"
    /\ pc' = "scrolling"
    /\ timer' = "active"
    /\ totalHeight' = 0
    /\ scrollHeight' = 0
    /\ resolved' = 0
    /\ bodyScrollHeight' \in Heights
    /\ UNCHANGED <<envVars, browser, error, result, fileWritten, exitCode>>
    /\ UNCHANGED <<waitVars, domVars, pureVars>>

\* Lines 280-283 without the clearInterval: the timer keeps firing.
TimerAfterLeaky(done) == "active"

\* Lines 280-283: the timer after a tick.
TimerAfter(done) == IF done THEN "cleared" ELSE "active"

\* Lines 275-284: one run of the interval callback.  A cleared timer does not
\* fire.  (While the timer is active no tick has met the exit test, so
\* totalHeight is below the scroll height read last and the bound never bites.)
Tick ==
    /\ pc \in {"scrolling", "scrolled"}
    /\ timer = "active"
    /\ totalHeight < MaxScrollHeight
    /\ scrollHeight' = bodyScrollHeight
    /\ totalHeight' = totalHeight + distance
    /\ LET done == totalHeight' >= scrollHeight' - innerHeight
       IN  /\ timer' = TimerAfter(done)
           /\ resolved' = IF done THEN resolved + 1 ELSE resolved
           /\ pc' = IF done THEN "scrolled" ELSE pc
    /\ UNCHANGED bodyScrollHeight
    /\ UNCHANGED <<envVars, browser, error, result, fileWritten, exitCode>>
    /\ UNCHANGED <<waitVars, domVars, pureVars>>

\* The page: scrolling loads more content and the body grows.
Grow ==
    /\ pc = "scrolling"
    /\ \E g \in 1..MaxGrowUnits :
          /\ bodyScrollHeight + g * HeightUnit <= MaxScrollHeight
          /\ bodyScrollHeight' = bodyScrollHeight + g * HeightUnit
    /\ UNCHANGED <<timer, totalHeight, scrollHeight, resolved>>
    /\ UNCHANGED <<orchVars, waitVars, domVars, pureVars>>

\* Line 270: page.evaluate rejects (the execution context is lost).  Nothing in
\* autoScroll, waitForContent (line 132) or the caller's try block (line 63)
\* handles it before the catch clause of line 91.
EvaluateRejects ==
    /\ pc \in {"autoScroll", "scrolling", "scrolled"}
    /\ fault = "autoScroll"
    /\ Throw("autoScroll")
    /\ timer' = "none"
    /\ totalHeight' = 0
    /\ scrollHeight' = 0
    /\ bodyScrollHeight' = 0
    /\ UNCHANGED resolved
    /\ UNCHANGED <<envVars, browser, result, fileWritten, exitCode>>
    /\ UNCHANGED <<waitVars, domVars, pureVars>>

\* Lines 286, 132: the promise is resolved, page.evaluate and autoScroll return.
\* The callback's variables are gone and the page's height is read no more.
EvaluateReturns ==
    /\ pc = "scrolled"
    /\ resolved > 0
    /\ fault # "autoScroll"
    /\ pc' = "wait"
    /\ timer' = "none"
    /\ totalHeight' = 0
    /\ scrollHeight' = 0
    /\ bodyScrollHeight' = 0
    /\ UNCHANGED resolved
    /\ UNCHANGED <<envVars, browser, error, result, fileWritten, exitCode>>
    /\ UNCHANGED <<waitVars, domVars, pureVars>>

\* Lines 133-134: await wait(1000); waitForContent returns, its variables are gone.
Settle ==
    /\ pc = "wait"
    /\ pc' = "content"
    /\ selIdx' = 0
    /\ foundSelector' = "null"
    /\ UNCHANGED <<envVars, browser, error, result, fileWritten, exitCode>>
    /\ UNCHANGED <<scrollVars, domVars, pureVars>>

(***************************************************************************)
(* Lines 67-89: snapshot, extraction, conversion, file.                    *)
(***************************************************************************)
\* Lines 67-71: htmlContent = await page.content(); document = new JSDOM(...)
Content ==
    /\ pc = "content"
    /\ IF fault = "content"
       THEN Throw("content") /\ UNCHANGED document
       ELSE /\ document' \in Documents
            /\ pc' = "extractContent"
            /\ UNCHANGED error
    /\ UNCHANGED <<envVars, browser, result, fileWritten, exitCode>>
    /\ UNCHANGED <<contentElement, article>>
    /\ UNCHANGED <<waitVars, scrollVars, pureVars>>

\* Line 74: const article = extractContent(document)
Extract ==
    /\ pc = "extractContent"
    /\ LET r == extractContent(document)
       IN  /\ contentElement' = r.contentElement
           /\ document' = r.document
           /\ IF r.threw
              THEN Throw("TypeError") /\ UNCHANGED article
              ELSE /\ article' = [content |-> r.content]
                   /\ pc' = "checkArticle"
                   /\ UNCHANGED error
    /\ UNCHANGED <<envVars, browser, result, fileWritten, exitCode>>
    /\ UNCHANGED <<waitVars, scrollVars, pureVars>>

\* Lines 76-78: if (!article || !article.content) throw new Error(...)
CheckArticle ==
    /\ pc = "checkArticle"
    /\ IF article.content = << >>
       THEN Throw("Failed to extract article content")
       ELSE pc' = "turndown" /\ UNCHANGED error
    /\ UNCHANGED <<envVars, browser, result, fileWritten, exitCode>>
    /\ UNCHANGED <<waitVars, scrollVars, domVars, pureVars>>

\* Lines 81-86: turndownService.turndown(article.content), then cleanMarkdown
Turndown ==
    /\ pc = "turndown"
    /\ IF fault = "turndown" THEN Throw("turndown") ELSE pc' = "writeFile" /\ UNCHANGED error
    /\ UNCHANGED <<envVars, browser, result, fileWritten, exitCode>>
    /\ UNCHANGED <<waitVars, scrollVars, domVars, pureVars>>

\* Lines 89-90: fs.writeFileSync(outputPath, ...); the try block ends.
WriteFile ==
    /\ pc = "writeFile"
    /\ IF fault = "writeFile"
       THEN Throw("writeFile") /\ UNCHANGED fileWritten
       ELSE fileWritten' = TRUE /\ pc' = "finally" /\ UNCHANGED error
    /\ UNCHANGED <<envVars, browser, result, exitCode>>
    /\ UNCHANGED <<waitVars, scrollVars, domVars, pureVars>>

\* A catch clause that ends the call itself: the finally block is missing.
CatchWithoutFinally ==
    /\ pc = "catch"
    /\ pc' = "done"
    /\ result' = "threw"
    /\ UNCHANGED <<envVars, browser, error, fileWritten, exitCode>>
    /\ UNCHANGED <<waitVars, scrollVars, domVars, pureVars>>

\* Lines 91-93: console.error("Error:", error.message); throw error
Catch ==
    /\ pc = "catch"
    /\ pc' = "finally"
    /\ UNCHANGED <<envVars, browser, error, result, fileWritten, exitCode>>
    /\ UNCHANGED <<waitVars, scrollVars, domVars, pureVars>>

\* Lines 94-98: if (browser) await browser.close().  A rejection of close()
\* leaves the finally block as the call's exception.
Finally ==
    /\ pc = "finally"
    /\ pc' = "done"
    /\ IF browser = "open"
       THEN /\ browser' = "closed"
            /\ error' = IF closeFails THEN "close" ELSE error
       ELSE UNCHANGED <<browser, error>>
    /\ result' = IF error' = "none" THEN "returned" ELSE "threw"
    /\ UNCHANGED <<envVars, fileWritten, exitCode>>
    /\ UNCHANGED <<waitVars, scrollVars, domVars, pureVars>>

(***************************************************************************)
(* cli.js, lines 21-38, with index.js line 302.                            *)
(***************************************************************************)
\* Line 302: module.exports = convertHtmlToMarkdown.  The names cli.js can
\* destructure from require("./index"): a function carries no own `convert`.
ExportedNames == {"name", "length", "prototype"}

\* Lines 5, 21-37: const { convert } = require("./index"); the action calls it
\* inside the try block.  Calling undefined raises a TypeError, which the catch
\* clause prints before process.exit(1).
CliAction ==
    /\ pc = "cli"
    /\ pc' = "exited"
    /\ IF "convert" \in ExportedNames
       THEN \E ok \in BOOLEAN, wrote \in BOOLEAN :
               /\ error' = IF ok /\ wrote THEN "none" ELSE "convert"
               /\ fileWritten' = (ok /\ wrote)
               /\ exitCode' = IF ok /\ wrote THEN 0 ELSE 1
       ELSE /\ error' = "TypeError: convert is not a function"
            /\ exitCode' = 1
            /\ UNCHANGED fileWritten
    /\ UNCHANGED <<envVars, browser, result>>
    /\ UNCHANGED <<waitVars, scrollVars, domVars, pureVars>>

InitPure ==
    /\ markdown = << >>
    /\ cleaned = << >>
    /\ twice = << >>
    /\ table = << >>
    /\ markdownRows = << >>
    /\ node = [nodeName |-> "DIV", classes |-> << >>]
    /\ isAdmonition = FALSE
    /\ type = "none"

InitRun ==
    /\ browser = "undefined"
    /\ error = "none"
    /\ result = "running"
    /\ fileWritten = FALSE
    /\ exitCode = -1
    /\ selIdx = 0
    /\ foundSelector = "null"
    /\ timer = "none"
    /\ totalHeight = 0
    /\ scrollHeight = 0
    /\ bodyScrollHeight = 0
    /\ resolved = 0
    /\ document = NoDocument
    /\ contentElement = Null
    /\ article = NoArticle

Init ==
    /\ entry \in {"cli", "api"}
    /\ noJs \in BOOLEAN
    /\ fault \in Faults
    /\ closeFails \in BOOLEAN
    /\ pc = IF entry = "cli" THEN "cli" ELSE "launch"
    /\ InitRun
    /\ InitPure

Next ==
    \/ Launch
    \/ NewPage
    \/ Configure
    \/ Goto
    \/ TrySelector
    \/ TextDetection
    \/ ScrollStart
    \/ Tick
    \/ Grow
    \/ EvaluateRejects
    \/ EvaluateReturns
    \/ Settle
    \/ Content
    \/ Extract
    \/ CheckArticle
    \/ Turndown
    \/ WriteFile
    \/ Catch
    \/ Finally
    \/ CliAction

Spec == Init /\ [][Next]_vars

\* The steps the program takes up to the HTML snapshot of line 67.
StepToSnapshot ==
    \/ Launch \/ NewPage \/ Configure \/ Goto \/ TrySelector \/ TextDetection
    \/ ScrollStart \/ Tick \/ EvaluateRejects \/ EvaluateReturns \/ Settle
    \/ Content

\* A call of convertHtmlToMarkdown up to the snapshot, the page growing meanwhile.
NextToSnapshot ==
    \/ StepToSnapshot
    \/ Grow

\* The event loop runs a ready continuation and fires an active interval timer;
\* nothing makes the page grow.
ScrollSpec ==
    /\ Init
    /\ [][NextToSnapshot]_vars
    /\ WF_vars(StepToSnapshot)
    /\ WF_vars(Tick)

(***************************************************************************)
(* Claims about a run (Spec, ScrollSpec).                                    *)
(***************************************************************************)

\* C1: when a call of convertHtmlToMarkdown has returned or thrown, a browser
\* that was launched is not left open: close() has been called on it, whatever
\* stage failed.
C1_BrowserClosedOnEveryExit == result # "running" => browser # "open"

\* A run that failed after the launch (here: in the extraction check) and ended
\* with the browser closed.
C1_Witness_FailedRunClosed ==
    /\ result = "threw"
    /\ error = "Failed to extract article content"
    /\ browser = "closed"

\* C2: whenever a conversion ends in failure (the call throws, or the CLI exits
\* with status 1), no output file has been written.
C2_NoFileOnFailure == (result = "threw" \/ exitCode = 1) => ~fileWritten

\* C4: the CLI exits with 0 exactly when the file was written and with 1
\* otherwise, and a run in which nothing fails exits with 0.
C4_ExitCodeContract ==
    pc = "exited" =>
        /\ exitCode \in {0, 1}
        /\ exitCode = 0 <=> fileWritten
        /\ (fault = "none" /\ ~closeFails) => exitCode = 0

NoRegionNoBody(doc) ==
    /\ ~doc.body
    /\ \A p \in Paths(doc) :
          TagAt(doc, p) \notin {".doc-content", "article", "main", ".content"}

RegionByPriority(doc, ce) ==
    LET prio == <<".doc-content", "article", "main", ".content">>
        Has(k) == \E p \in Paths(doc) : TagAt(doc, p) = prio[k]
    IN  IF \E k \in 1..4 : Has(k)
        THEN /\ ce \in Paths(doc)
             /\ \E k \in 1..4 :
                   /\ TagAt(doc, ce) = prio[k]
                   /\ \A j \in 1..(k - 1) : ~Has(j)
             /\ \A q \in Paths(doc) :
                   TagAt(doc, q) = TagAt(doc, ce) => (q = ce \/ Before(ce, q))
        ELSE ce = Body(doc)

\* C6: extractContent picks the region by the priority list, whatever the
\* document order of the candidates, falls back to the body only when no entry
\* matches, and leaves the document as it was.
C6_RegionByPriorityDocumentUntouched ==
    [][(pc = "extractContent") =>
          /\ RegionByPriority(document, contentElement')
          /\ document' = document]_vars

\* An article that comes after a main element in the document was extracted.
C6_Witness_LaterElementWins ==
    /\ pc = "checkArticle"
    /\ Len(document.children) = 2
    /\ document.children[1].tag = "main"
    /\ document.children[2].tag = "article"
    /\ contentElement = <<2>>

ReadinessPcs ==
    {"waitForSelector", "waitForFunction", "autoScroll", "scrolling", "scrolled", "wait"}

\* C7: once waitForContent runs, no outcome of it aborts the conversion:
\* control stays in the readiness steps until it goes on to the HTML snapshot.
C7_ReadinessNeverAborts ==
    [][(pc \in ReadinessPcs) => (pc' \in ReadinessPcs \cup {"content"})]_vars

\* C10: the scroll loop, once page.evaluate has started it and unless the
\* browser rejects the evaluate call, clears its timer and resolves; it resolves
\* at most once and does not scroll after that; the settle delay and the
\* snapshot call follow; and a tick that finds the body grown by a scroll step
\* or more since the last tick does not resolve.
C10_AutoScrollTerminates ==
    /\ (pc = "scrolling" /\ fault # "autoScroll") ~> (resolved = 1 /\ timer = "cleared")
    /\ (pc = "scrolled" /\ fault # "autoScroll") ~>
           (pc = "extractContent" \/ error = "content")
    /\ [](resolved <= 1)
    /\ [][(resolved > 0) => (totalHeight' <= totalHeight)]_vars
    /\ [][(timer = "active" /\ totalHeight > 0 /\ totalHeight' > totalHeight
             /\ bodyScrollHeight >= scrollHeight + distance) =>
            resolved' = resolved]_vars

\* The loop resolved after several ticks, on the tallest page of the model.
C10_Witness_ResolvedAfterTicks ==
    /\ pc = "scrolled"
    /\ resolved = 1
    /\ timer = "cleared"
    /\ totalHeight >= 2 * distance
    /\ scrollHeight = MaxScrollHeight

(***************************************************************************)
(* cleanMarkdown, lines 289-299.  A string is the sequence of its          *)
(* characters; "x" stands for every character the patterns do not name.    *)
(***************************************************************************)
\* The backtick character.
BT == "backtick"
Chars == {"\n", BT, "-", "*", " ", "\\", "#", "x"}
Strings == SeqsUpTo(Chars, MaxLen)

Max(S) == CHOOSE x \in S : \A y \in S : y <= x

\* The length of the longest run of characters of C that starts at s[i].
Run(s, i, C) ==
    Max({n \in 0..(Len(s) + 1 - i) : \A k \in 0..(n - 1) : s[i + k] \in C})

NlRun(s, i) == Run(s, i, {"\n"})

\* "." matches any character but a line terminator.
DotRun(s, i) == Run(s, i, Chars \ {"\n"})

At(s, i) == IF i >= 1 /\ i <= Len(s) THEN s[i] ELSE "end"

Fence(s, i) == At(s, i) = BT /\ At(s, i + 1) = BT /\ At(s, i + 2) = BT

\* String.prototype.replace with a global pattern: the matches are found left
\* to right, each search resuming where the last match ended.  len[i] is the
\* length of the match that starts at s[i] (0: none), repl[i] what replaces it.
ReplaceAll(s, len, repl) ==
    LET scan[i \in 1..(Len(s) + 1)] ==
            IF i > Len(s) THEN << >>
            ELSE IF len[i] > 0
                 THEN repl[i] \o scan[i + len[i]]
                 ELSE <<s[i]>> \o scan[i + 1]
    IN  scan[1]

\* Line 290: /\n{3,}/g -> "\n\n"
Pass1(s) ==
    ReplaceAll(s,
        [i \in 1..Len(s) |-> IF NlRun(s, i) >= 3 THEN NlRun(s, i) ELSE 0],
        [i \in 1..Len(s) |-> <<"\n", "\n">>])

\* Line 291: /(\n{2,})(FENCE)/g -> "\n$2"
Pass2(s) ==
    ReplaceAll(s,
        [i \in 1..Len(s) |->
            IF NlRun(s, i) >= 2 /\ Fence(s, i + NlRun(s, i)) THEN NlRun(s, i) + 3 ELSE 0],
        [i \in 1..Len(s) |-> <<"\n", BT, BT, BT>>])

\* Line 292: /(FENCE)(\n{2,})/g -> "$1\n"
Pass3(s) ==
    ReplaceAll(s,
        [i \in 1..Len(s) |->
            IF Fence(s, i) /\ NlRun(s, i + 3) >= 2 THEN 3 + NlRun(s, i + 3) ELSE 0],
        [i \in 1..Len(s) |-> <<BT, BT, BT, "\n">>])

\* Line 293: /(\n{2,})([-*] )/g -> "\n$2"
Pass4(s) ==
    ReplaceAll(s,
        [i \in 1..Len(s) |->
            IF /\ NlRun(s, i) >= 2
               /\ At(s, i + NlRun(s, i)) \in {"-", "*"}
               /\ At(s, i + NlRun(s, i) + 1) = " "
            THEN NlRun(s, i) + 2 ELSE 0],
        [i \in 1..Len(s) |-> <<"\n", At(s, i + NlRun(s, i)), " ">>])

\* Line 294: /([-*].+)(\n{2,})/g -> "$1\n".  The greedy ".+" runs to the end of
\* the line, which is the only place where "\n" can follow it.
Pass5(s) ==
    ReplaceAll(s,
        [i \in 1..Len(s) |->
            IF /\ s[i] \in {"-", "*"}
               /\ DotRun(s, i + 1) >= 1
               /\ NlRun(s, i + 1 + DotRun(s, i + 1)) >= 2
            THEN 1 + DotRun(s, i + 1) + NlRun(s, i + 1 + DotRun(s, i + 1))
            ELSE 0],
        [i \in 1..Len(s) |-> SubSeq(s, i, i + DotRun(s, i + 1)) \o <<"\n">>])

\* Lines 295-297: /\\c/g -> "c"
Unescape(s, c) ==
    ReplaceAll(s,
        [i \in 1..Len(s) |-> IF s[i] = "\\" /\ At(s, i + 1) = c THEN 2 ELSE 0],
        [i \in 1..Len(s) |-> <<c>>])

cleanMarkdown(s) ==
    Unescape(Unescape(Unescape(Pass5(Pass4(Pass3(Pass2(Pass1(s))))), BT), "#"), "-")

InitIdle ==
    /\ entry = "none"
    /\ noJs = FALSE
    /\ fault = "none"
    /\ closeFails = FALSE
    /\ InitRun

\* cleanMarkdown(markdown)
Clean ==
    /\ pc = "cleanMarkdown"
    /\ cleaned' = cleanMarkdown(markdown)
    /\ pc' = "cleanAgain"
    /\ UNCHANGED <<markdown, twice>>
    /\ UNCHANGED <<envVars, browser, error, result, fileWritten, exitCode>>
    /\ UNCHANGED <<waitVars, scrollVars, domVars, tableVars, admVars>>

\* cleanMarkdown applied to its own result
CleanAgain ==
    /\ pc = "cleanAgain"
    /\ twice' = cleanMarkdown(cleaned)
    /\ pc' = "cleanDone"
    /\ UNCHANGED <<markdown, cleaned>>
    /\ UNCHANGED <<envVars, browser, error, result, fileWritten, exitCode>>
    /\ UNCHANGED <<waitVars, scrollVars, domVars, tableVars, admVars>>

CleanInit ==
    /\ InitIdle
    /\ cleaned = << >>
    /\ twice = << >>
    /\ table = << >>
    /\ markdownRows = << >>
    /\ node = [nodeName |-> "DIV", classes |-> << >>]
    /\ isAdmonition = FALSE
    /\ type = "none"
    /\ markdown \in Strings
    /\ pc = "cleanMarkdown"

CleanNext ==
    \/ Clean
    \/ CleanAgain

CleanSpec == CleanInit /\ [][CleanNext]_vars

\* C3: cleanMarkdown is idempotent: applied to its own result it changes nothing.
C3_CleanMarkdownIdempotent == pc = "cleanDone" => twice = cleaned

(***************************************************************************)
(* The "tables" rule, lines 220-245.  A table is the sequence of its rows, *)
(* a row the sequence of its cells, a cell its tag and the tables nested   *)
(* in it (after the cell's text, "a").                                     *)
(***************************************************************************)
PlainCells == [tag : {"td", "th"}, nested : {<< >>}]

\* The tables nested in a cell: rows of plain td cells.
InnerTables ==
    {[i \in 1..r |-> [j \in 1..c |-> [tag |-> "td", nested |-> << >>]]] :
        r \in 1..MaxRows, c \in 1..MaxCols}

Cells == PlainCells \cup [tag : {"td"}, nested : {<<t>> : t \in InnerTables}]

Tables == SeqsUpTo(SeqsUpTo(Cells, MaxCols) \ {<< >>}, MaxRows) \ {<< >>}

RECURSIVE Concat(_)
Concat(ss) == IF ss = << >> THEN << >> ELSE Head(ss) \o Concat(Tail(ss))

\* Array.prototype.join
RECURSIVE Join(_, _)
Join(ss, sep) ==
    IF ss = << >> THEN << >>
    ELSE IF Len(ss) = 1 THEN ss[1]
    ELSE ss[1] \o sep \o Join(Tail(ss), sep)

\* String.prototype.repeat
RECURSIVE Repeat(_, _)
Repeat(str, n) == IF n = 0 THEN << >> ELSE str \o Repeat(str, n - 1)

\* row.querySelectorAll("td, th"): every cell below the row, in document order,
\* those of nested tables included.
RECURSIVE CellsBelow(_)
CellsBelow(row) ==
    Concat([k \in 1..Len(row) |->
              <<row[k]>> \o
              Concat([n \in 1..Len(row[k].nested) |->
                        Concat([r \in 1..Len(row[k].nested[n]) |->
                                  CellsBelow(row[k].nested[n][r])])])])

\* node.querySelectorAll("tr"): every row below the table, in document order,
\* those of nested tables included.
RECURSIVE RowsBelow(_)
RowsBelow(t) ==
    Concat([r \in 1..Len(t) |->
              <<t[r]>> \o
              Concat([k \in 1..Len(t[r]) |->
                        Concat([n \in 1..Len(t[r][k].nested) |->
                                  RowsBelow(t[r][k].nested[n])])])])

\* Turndown trims the newlines at both ends of its output.
RECURSIVE TrimNewlines(_)
TrimNewlines(str) ==
    IF str # << >> /\ Head(str) = "\n" THEN TrimNewlines(Tail(str))
    ELSE IF str # << >> /\ str[Len(str)] = "\n"
         THEN TrimNewlines(SubSeq(str, 1, Len(str) - 1))
         ELSE str

\* .replace(/\n/g, " ")
NewlinesToSpaces(str) == [i \in 1..Len(str) |-> IF str[i] = "\n" THEN " " ELSE str[i]]

\* Lines 237-239: "---|".repeat(n).slice(0, -1)
headerSeparator(n) ==
    LET rep == Repeat(<<"-", "-", "-", "|">>, n)
    IN  IF rep = << >> THEN << >> ELSE SubSeq(rep, 1, Len(rep) - 1)

RECURSIVE tablesRule(_)
RECURSIVE turndown(_)

\* Lines 228-230: turndownService.turndown(cell.innerHTML): the cell's text,
\* then the replacement of each nested table, the ends trimmed.
turndown(cell) ==
    TrimNewlines(
        <<"a">> \o
        Concat([n \in 1..Len(cell.nested) |->
                  <<"\n">> \o Join(tablesRule(cell.nested[n]), <<"\n">>) \o <<"\n", "\n">>]))

\* Lines 223-241: markdownRows after the splice.
tablesRule(t) ==
    LET rows == RowsBelow(t)
        line(row) ==
            LET cells == CellsBelow(row)
            IN  Join([k \in 1..Len(cells) |->
                        LET text == NewlinesToSpaces(turndown(cells[k]))
                        IN  IF cells[k].tag = "th"
                            THEN <<"*", "*">> \o text \o <<"*", "*">>
                            ELSE text],
                     <<" ", "|", " ">>)
        lines == [r \in 1..Len(rows) |-> line(rows[r])]
    IN  IF Len(rows) > 0
        THEN <<lines[1]>> \o <<headerSeparator(Len(CellsBelow(rows[1])))>>
                 \o SubSeq(lines, 2, Len(lines))
        ELSE lines

\* The replacement function of the rule applied to `table`.
TableRule ==
    /\ pc = "tables"
    /\ markdownRows' = tablesRule(table)
    /\ pc' = "tablesDone"
    /\ UNCHANGED table
    /\ UNCHANGED <<envVars, browser, error, result, fileWritten, exitCode>>
    /\ UNCHANGED <<waitVars, scrollVars, domVars, cleanVars, admVars>>

TableInit ==
    /\ InitIdle
    /\ markdown = << >>
    /\ cleaned = << >>
    /\ twice = << >>
    /\ markdownRows = << >>
    /\ node = [nodeName |-> "DIV", classes |-> << >>]
    /\ isAdmonition = FALSE
    /\ type = "none"
    /\ table \in Tables
    /\ pc = "tables"

TableNext == TableRule

TableSpec == TableInit /\ [][TableNext]_vars

\* A table of rows that all have the same number of cells.
Rectangular(t) == \A r \in 1..Len(t) : Len(t[r]) = Len(t[1])

\* M groups of "---" joined by "|".
SeparatorOf(m) == Join([k \in 1..m |-> <<"-", "-", "-">>], <<"|">>)

\* C8: for a table of N+1 rows of M cells the rule emits N+1 row lines and one
\* separator line, the separator second, made of M groups of "---" joined by
\* "|"; this also when a cell holds a nested table.
C8_TableLines ==
    (pc = "tablesDone" /\ Rectangular(table)) =>
        /\ Len(markdownRows) = Len(table) + 1
        /\ markdownRows[2] = SeparatorOf(Len(table[1]))

(***************************************************************************)
(* The "admonition" rule, lines 247-264.  A class name is the sequence of  *)
(* its characters, className the class tokens joined by spaces.            *)
(***************************************************************************)
warning == <<"w", "a", "r", "n", "i", "n", "g">>
tip == <<"t", "i", "p">>
note == <<"n", "o", "t", "e">>
tooltip == <<"t", "o", "o", "l", "t", "i", "p">>
footnote == <<"f", "o", "o", "t", "n", "o", "t", "e">>
box == <<"b", "o", "x">>
ClassNames == {warning, tip, note, tooltip, footnote, box}
AdmonitionNodes == [nodeName : {"DIV", "P"}, classes : SeqsUpTo(ClassNames, MaxClasses)]

\* node.className
className(n) == Join(n.classes, <<" ">>)

\* String.prototype.includes
includes(hay, needle) ==
    \E i \in 0..(Len(hay) - Len(needle)) : SubSeq(hay, i + 1, i + Len(needle)) = needle

\* Lines 248-255: filter
admonitionFilter(n) ==
    /\ n.nodeName = "DIV"
    /\ \/ includes(className(n), warning)
       \/ includes(className(n), tip)
       \/ includes(className(n), note)

\* Lines 257-261: const type
admonitionType(n) ==
    IF includes(className(n), warning) THEN "WARNING"
    ELSE IF includes(className(n), tip) THEN "TIP"
    ELSE "NOTE"

\* Turndown asks the rule's filter, and calls its replacement when it matched.
AdmonitionRule ==
    /\ pc = "admonition"
    /\ isAdmonition' = admonitionFilter(node)
    /\ type' = IF admonitionFilter(node) THEN admonitionType(node) ELSE "none"
    /\ pc' = "admonitionDone"
    /\ UNCHANGED node
    /\ UNCHANGED <<envVars, browser, error, result, fileWritten, exitCode>>
    /\ UNCHANGED <<waitVars, scrollVars, domVars, cleanVars, tableVars>>

AdmonitionInit ==
    /\ InitIdle
    /\ markdown = << >>
    /\ cleaned = << >>
    /\ twice = << >>
    /\ table = << >>
    /\ markdownRows = << >>
    /\ isAdmonition = FALSE
    /\ type = "none"
    /\ node \in AdmonitionNodes
    /\ pc = "admonition"

AdmonitionNext == AdmonitionRule

AdmonitionSpec == AdmonitionInit /\ [][AdmonitionNext]_vars

HasClass(n, c) == \E k \in 1..Len(n.classes) : n.classes[k] = c

\* C9: a div is an admonition exactly when one of its classes is warning, tip
\* or note (a class that only contains such a word is not one), and the label
\* follows the precedence warning, tip, note.
C9_AdmonitionByClassList ==
    (pc = "admonitionDone" /\ node.nodeName = "DIV") =>
        /\ isAdmonition <=>
               (HasClass(node, warning) \/ HasClass(node, tip) \/ HasClass(node, note))
        /\ isAdmonition =>
               type = IF HasClass(node, warning) THEN "WARNING"
                      ELSE IF HasClass(node, tip) THEN "TIP"
                      ELSE "NOTE"
====
